---- MODULE Spec2Model ----
(***************************************************************************)
(* Meeting-room reservation service (services.py, repositories.py,        *)
(* models.py, routes.py; app.py is the single-file variant).               *)
(*                                                                         *)
(* Time is counted in whole units.  A datetime as the client submits it    *)
(* is [aware, wall, off]: `aware` says whether it carries tzinfo, `wall`   *)
(* is its wall-clock reading (year..microsecond fields) and `off` its UTC  *)
(* offset.  The instant it denotes is wall - off.  The reservations table  *)
(* has plain DateTime columns on SQLite: a value written to the table, or  *)
(* bound into a query on those columns, keeps its wall-clock fields only.  *)
(***************************************************************************)
EXTENDS Integers, Sequences, FiniteSets

\* ---------------------------------------------------------------- bounds
MaxWall == 2        \* wall-clock readings are 0..MaxWall
MaxOff == 1         \* UTC offsets are -MaxOff..MaxOff
MaxNow == 1         \* the clock runs from 0 to MaxNow
MaxRes == 2         \* at most MaxRes reservations are ever created
NumThreads == 2     \* request threads of the concurrent specification

Rooms == {"A", "B"}
Walls == 0..MaxWall
Offsets == (0 - MaxOff)..MaxOff
Ids == 1..(MaxRes + 1)
Threads == 1..NumThreads

\* ------------------------------------------------------------- datetimes
Aware(w, o) == [aware |-> TRUE, wall |-> w, off |-> o]
Naive(w) == [aware |-> FALSE, wall |-> w, off |-> 0]
\* A naive datetime is refused before its reading is looked at: one stands for all.
DateTimes == {Aware(w, o) : w \in Walls, o \in Offsets} \cup {Naive(0)}

\* The instant an aware datetime denotes; Python compares aware datetimes by it.
Utc(dt) == dt.wall - dt.off

\* What a DateTime column keeps of a datetime, on insert and as a bound
\* query parameter: the wall-clock fields, tzinfo dropped.
ToDb(dt) == dt.wall

\* schemas.ReservationCreate
ReservationCreate == [room_id : Rooms, start_time : DateTimes, end_time : DateTimes]

NoReq == [room_id |-> "-", start_time |-> Naive(0), end_time |-> Naive(0)]
NoRec == [id |-> 0, room_id |-> "-", start_time |-> 0, end_time |-> 0]

\* ------------------------------------------------------- response details
DetailStartTz == "start_time must be timezone-aware (UTC)"
DetailEndTz == "end_time must be timezone-aware (UTC)"
DetailRange == "Start time must be before end time"
DetailPast == "Reservations cannot be made in the past"
DetailOverlap == "Reservation overlaps with an existing one"
DetailNotFound == "Reservation not found"
DetailCanceled == "Reservation canceled"
DetailOk == "ok"

VARIABLES
    store,      \* rows of the reservations table: [id, room_id, start_time, end_time]
    nextId,     \* the next fresh id (uuid4 never repeats)
    now,        \* the clock, datetime.now(timezone.utc)
    last,       \* the response to the last request served one at a time
    hist,       \* history: the records the successful creates returned, in order
    canceled,   \* history: the ids whose cancel succeeded
    pc,         \* per thread: where its request stands
    treq,       \* per thread: the request it serves
    tres,       \* per thread: its response
    appStore,   \* rows of the reservations table of the single-file app.py
    appLast     \* the response of app.py to the last request

vars == <<store, nextId, now, last, hist, canceled, pc, treq, tres, appStore, appLast>>
histVars == <<hist, canceled>>
threadVars == <<pc, treq, tres>>
appVars == <<appStore, appLast>>

\* ------------------------------------------------------------ repository
\* find_overlapping with the row's end compared to the new end, not the new start.
find_overlapping_end_only(db, room_id, start_time, end_time) ==
    {r \in db : /\ r.room_id = room_id
                /\ r.start_time < ToDb(end_time)
                /\ r.end_time > ToDb(end_time)}

\* find_overlapping with closed comparisons: ranges that touch match.
find_overlapping_closed(db, room_id, start_time, end_time) ==
    {r \in db : /\ r.room_id = room_id
                /\ r.start_time <= ToDb(end_time)
                /\ r.end_time >= ToDb(start_time)}

\* find_overlapping without the room filter.
find_overlapping_any_room(db, room_id, start_time, end_time) ==
    {r \in db : /\ r.start_time < ToDb(end_time)
                /\ r.end_time > ToDb(start_time)}

\* ReservationRepository.find_overlapping: the rows the filter matches (the
\* caller only tests whether .first() is None).
find_overlapping(db, room_id, start_time, end_time) ==
    {r \in db : /\ r.room_id = room_id
                /\ r.start_time < ToDb(end_time)
                /\ r.end_time > ToDb(start_time)}

\* ReservationRepository.find_by_id
find_by_id(db, reservation_id) == {r \in db : r.id = reservation_id}

\* Sequences without repetition that list exactly the rows of S.
Orderings(S) ==
    {f \in [1..Cardinality(S) -> S] : \A i, j \in 1..Cardinality(S) : i # j => f[i] # f[j]}

\* find_by_room_id without ORDER BY.
find_by_room_id_unordered(db, room_id) == Orderings({r \in db : r.room_id = room_id})

\* ReservationRepository.find_by_room_id: every order the query may return,
\* ORDER BY start_time (rows with equal start_time come in any order).
find_by_room_id(db, room_id) ==
    LET rows == {r \in db : r.room_id = room_id}
    IN  {f \in Orderings(rows) :
            \A i, j \in 1..Cardinality(rows) : i < j => f[i].start_time <= f[j].start_time}

\* ReservationRepository.create: the row as inserted and read back by refresh.
NewRow(id, data) ==
    [id |-> id, room_id |-> data.room_id,
     start_time |-> ToDb(data.start_time), end_time |-> ToDb(data.end_time)]

\* --------------------------------------------------------------- service
validate_timezone_aware(dt) == dt.aware

\* _validate_time_range letting a range of no length through.
validate_time_range_allow_equal(start_time, end_time) == ~(Utc(start_time) > Utc(end_time))

validate_time_range(start_time, end_time) == ~(Utc(start_time) >= Utc(end_time))

\* _validate_not_in_past refusing a start at the instant read, too.
validate_not_in_past_strict(start_time, clock) == ~(Utc(start_time) <= clock)

validate_not_in_past(start_time, clock) == ~(Utc(start_time) < clock)

\* The validations with end_time's timezone checked before start_time's.
Validate_end_first(data, clock) ==
    IF ~validate_timezone_aware(data.end_time) THEN DetailEndTz
    ELSE IF ~validate_timezone_aware(data.start_time) THEN DetailStartTz
    ELSE IF ~validate_time_range(data.start_time, data.end_time) THEN DetailRange
    ELSE IF ~validate_not_in_past(data.start_time, clock) THEN DetailPast
    ELSE DetailOk

\* The four validations of create_reservation in the order the code runs
\* them; the detail of the first that raises, DetailOk when none does.
Validate(data, clock) ==
    IF ~validate_timezone_aware(data.start_time) THEN DetailStartTz
    ELSE IF ~validate_timezone_aware(data.end_time) THEN DetailEndTz
    ELSE IF ~validate_time_range(data.start_time, data.end_time) THEN DetailRange
    ELSE IF ~validate_not_in_past(data.start_time, clock) THEN DetailPast
    ELSE DetailOk

\* _check_overlap: TRUE when it raises.
check_overlap(db, data) ==
    find_overlapping(db, data.room_id, data.start_time, data.end_time) # {}

\* A request served one at a time and its answer: the path parameter (the id
\* of a cancel, the room of a list), the instant a create read during
\* validation, the status and detail of the HTTP response, the record a create
\* returns, the sequence a list returns.
Response(op, arg, clock, status, detail, rec, list) ==
    [op |-> op, arg |-> arg, clock |-> clock, status |-> status, detail |-> detail,
     rec |-> rec, list |-> list]

NoResponse == [status |-> 0, detail |-> DetailOk, rec |-> NoRec]

\* --------------------------------------------------------------- initial
Init ==
    /\ store = {}
    /\ nextId = 1
    /\ now = 0
    /\ last = Response("none", 0, 0, 0, DetailOk, NoRec, <<>>)
    /\ hist = <<>>
    /\ canceled = {}
    /\ pc = [t \in Threads |-> "idle"]
    /\ treq = [t \in Threads |-> NoReq]
    /\ tres = [t \in Threads |-> NoResponse]
    /\ appStore = {}
    /\ appLast = Response("none", 0, 0, 0, DetailOk, NoRec, <<>>)

\* ------------------------------------------- requests served one at a time
\* create_reservation writing the row before the overlap query is answered.
create_outcome_insert_first(db, clock, id, data) ==
    LET v == Validate(data, clock)
        rec == NewRow(id, data)
    IN  IF v # DetailOk
        THEN [status |-> 400, detail |-> v, rec |-> NoRec, db |-> db]
        ELSE IF check_overlap(db, data)
        THEN [status |-> 400, detail |-> DetailOverlap, rec |-> NoRec, db |-> db \cup {rec}]
        ELSE [status |-> 200, detail |-> DetailOk, rec |-> rec, db |-> db \cup {rec}]

\* ReservationService.create_reservation as a function of the table, the clock
\* and the fresh id: the response, and the table it leaves.
create_outcome(db, clock, id, data) ==
    LET v == Validate(data, clock)
        rec == NewRow(id, data)
    IN  IF v # DetailOk
        THEN [status |-> 400, detail |-> v, rec |-> NoRec, db |-> db]
        ELSE IF check_overlap(db, data)
        THEN [status |-> 400, detail |-> DetailOverlap, rec |-> NoRec, db |-> db]
        ELSE [status |-> 200, detail |-> DetailOk, rec |-> rec, db |-> db \cup {rec}]

\* cancel_reservation answering 200 and leaving the row in the table.
cancel_outcome_keep_row(db, reservation_id) ==
    LET found == find_by_id(db, reservation_id)
    IN  IF found = {}
        THEN [status |-> 404, detail |-> DetailNotFound, db |-> db]
        ELSE [status |-> 200, detail |-> DetailCanceled, db |-> db]

\* cancel_reservation answering an unknown id with 400 instead of 404.
cancel_outcome_bad_request(db, reservation_id) ==
    LET found == find_by_id(db, reservation_id)
    IN  IF found = {}
        THEN [status |-> 400, detail |-> DetailNotFound, db |-> db]
        ELSE [status |-> 200, detail |-> DetailCanceled, db |-> db \ found]

\* cancel_reservation deleting every row of the room of the row found.
cancel_outcome_whole_room(db, reservation_id) ==
    LET found == find_by_id(db, reservation_id)
    IN  IF found = {}
        THEN [status |-> 404, detail |-> DetailNotFound, db |-> db]
        ELSE [status |-> 200, detail |-> DetailCanceled,
              db |-> {r \in db : \A f \in found : r.room_id # f.room_id}]

\* cancel_reservation without the not-found check.
cancel_outcome_no_check(db, reservation_id) ==
    [status |-> 200, detail |-> DetailCanceled, db |-> db \ find_by_id(db, reservation_id)]

\* ReservationService.cancel_reservation as a function of the table.
cancel_outcome(db, reservation_id) ==
    LET found == find_by_id(db, reservation_id)
    IN  IF found = {}
        THEN [status |-> 404, detail |-> DetailNotFound, db |-> db]
        ELSE [status |-> 200, detail |-> DetailCanceled, db |-> db \ found]

\* ReservationService.get_reservations_for_room: the sequences it may return.
list_outcomes(db, room_id) == find_by_room_id(db, room_id)

\* POST /reservations
create_reservation(data) ==
    LET o == create_outcome(store, now, nextId, data)
    IN  /\ o.status = 200 => nextId <= MaxRes
        /\ store' = o.db
        /\ nextId' = IF o.status = 200 THEN nextId + 1 ELSE nextId
        /\ last' = Response("create", 0, now, o.status, o.detail, o.rec, <<>>)
        /\ UNCHANGED <<now, threadVars>>

\* DELETE /reservations/{id}
cancel_reservation(reservation_id) ==
    LET o == cancel_outcome(store, reservation_id)
    IN  /\ store' = o.db
        /\ last' = Response("cancel", reservation_id, 0, o.status, o.detail, NoRec, <<>>)
        /\ UNCHANGED <<nextId, now, threadVars>>

\* GET /reservations/rooms/{room_id}
get_reservations_for_room(room_id) ==
    /\ \E l \in list_outcomes(store, room_id) :
           last' = Response("list", room_id, 0, 200, DetailOk, NoRec, l)
    /\ UNCHANGED <<store, nextId, now, threadVars>>

\* Time passes.
Tick ==
    /\ now < MaxNow
    /\ now' = now + 1
    /\ UNCHANGED <<store, nextId, last, histVars, threadVars>>

Next ==
    \/ \E data \in ReservationCreate :
           create_reservation(data) /\ UNCHANGED <<histVars, appVars>>
    \/ \E id \in Ids : cancel_reservation(id) /\ UNCHANGED <<histVars, appVars>>
    \/ \E room \in Rooms :
           get_reservations_for_room(room) /\ UNCHANGED <<histVars, appVars>>
    \/ Tick /\ UNCHANGED appVars

Spec == Init /\ [][Next]_vars

\* ------------------------------------ the same requests, with their history
RecordCreate ==
    /\ hist' = IF last'.status = 200 THEN Append(hist, last'.rec) ELSE hist
    /\ UNCHANGED canceled

RecordCancel(reservation_id) ==
    /\ canceled' = IF last'.status = 200 THEN canceled \cup {reservation_id} ELSE canceled
    /\ UNCHANGED hist

NextHist ==
    \/ \E data \in ReservationCreate :
           create_reservation(data) /\ RecordCreate /\ UNCHANGED appVars
    \/ \E id \in Ids : cancel_reservation(id) /\ RecordCancel(id) /\ UNCHANGED appVars
    \/ \E room \in Rooms :
           get_reservations_for_room(room) /\ UNCHANGED <<histVars, appVars>>
    \/ Tick /\ UNCHANGED appVars

SpecHist == Init /\ [][NextHist]_vars

\* ------------------------------------------------- requests served in threads
\* create_reservation up to the overlap query: the four validations, which
\* read the request and the clock only.
t_validate(t, data) ==
    LET v == Validate(data, now)
    IN  /\ pc[t] = "idle"
        /\ treq' = [treq EXCEPT ![t] = data]
        /\ IF v # DetailOk
           THEN /\ pc' = [pc EXCEPT ![t] = "done"]
                /\ tres' = [tres EXCEPT ![t] = [status |-> 400, detail |-> v, rec |-> NoRec]]
           ELSE /\ pc' = [pc EXCEPT ![t] = "check"]
                /\ UNCHANGED tres
        /\ UNCHANGED <<store, nextId, now, last, histVars>>

\* _check_overlap: the SELECT of find_overlapping, and the raise.
t_check_overlap(t) ==
    /\ pc[t] = "check"
    /\ IF check_overlap(store, treq[t])
       THEN /\ pc' = [pc EXCEPT ![t] = "done"]
            /\ tres' = [tres EXCEPT ![t] =
                    [status |-> 400, detail |-> DetailOverlap, rec |-> NoRec]]
       ELSE /\ pc' = [pc EXCEPT ![t] = "insert"]
            /\ UNCHANGED tres
    /\ UNCHANGED <<store, nextId, now, last, histVars, treq>>

\* repository.create: add, commit, refresh.
t_create(t) ==
    LET rec == NewRow(nextId, treq[t])
    IN  /\ pc[t] = "insert"
        /\ store' = store \cup {rec}
        /\ nextId' = nextId + 1
        /\ pc' = [pc EXCEPT ![t] = "done"]
        /\ tres' = [tres EXCEPT ![t] = [status |-> 200, detail |-> DetailOk, rec |-> rec]]
        /\ UNCHANGED <<now, last, histVars, treq>>

NextConc ==
    \/ \E t \in Threads, data \in ReservationCreate :
           t_validate(t, data) /\ UNCHANGED appVars
    \/ \E t \in Threads : t_check_overlap(t) /\ UNCHANGED appVars
    \/ \E t \in Threads : t_create(t) /\ UNCHANGED appVars
    \/ Tick /\ UNCHANGED appVars

SpecConc == Init /\ [][NextConc]_vars

\* ------------------------------------------------- cancels served in threads
\* cancel_reservation up to the delete: the SELECT of find_by_id, and the
\* raise when it returns nothing.  rec holds the row the session loaded (the
\* id alone when there is none).
t_find_by_id(t, reservation_id) ==
    LET found == find_by_id(store, reservation_id)
    IN  /\ pc[t] = "idle"
        /\ IF found = {}
           THEN /\ pc' = [pc EXCEPT ![t] = "done"]
                /\ tres' = [tres EXCEPT ![t] =
                        [status |-> 404, detail |-> DetailNotFound,
                         rec |-> [NoRec EXCEPT !.id = reservation_id]]]
           ELSE /\ pc' = [pc EXCEPT ![t] = "delete"]
                /\ \E r \in found :
                       tres' = [tres EXCEPT ![t] =
                           [status |-> 0, detail |-> DetailOk, rec |-> r]]
        /\ UNCHANGED <<store, nextId, now, last, histVars, treq>>

\* repository.delete: DELETE of the loaded row by primary key, and commit.  A
\* DELETE that matches no row any more raises nothing (the mapper has no
\* version counter), and the handler returns its message.
t_delete(t) ==
    /\ pc[t] = "delete"
    /\ store' = {r \in store : r.id # tres[t].rec.id}
    /\ pc' = [pc EXCEPT ![t] = "done"]
    /\ tres' = [tres EXCEPT ![t] =
            [status |-> 200, detail |-> DetailCanceled, rec |-> tres[t].rec]]
    /\ UNCHANGED <<nextId, now, last, histVars, treq>>

NextCancel ==
    \/ \E t \in Threads, id \in Ids : t_find_by_id(t, id) /\ UNCHANGED appVars
    \/ \E t \in Threads : t_delete(t) /\ UNCHANGED appVars

\* ------------------------------------------------- the overlap detector alone
\* Rows a table may hold: any room, any readings (a table the threads wrote
\* may hold intersecting rows, and rows whose start is not before their end).
Rows(id) == [id : {id}, room_id : Rooms, start_time : Walls, end_time : Walls]

Tables == {{}} \cup {{a} : a \in Rows(1)} \cup {{a, b} : a \in Rows(1), b \in Rows(2)}

\* What _check_overlap is called with: a request past the first three validations.
Checked == {d \in ReservationCreate : Validate(d, 0) \in {DetailOk, DetailPast}}

InitDetector ==
    /\ store \in Tables
    /\ nextId = 3
    /\ now = 0
    /\ last = Response("none", 0, 0, 0, DetailOk, NoRec, <<>>)
    /\ hist = <<>>
    /\ canceled = {}
    /\ pc = [t \in Threads |-> "idle"]
    /\ treq = [t \in Threads |-> NoReq]
    /\ tres = [t \in Threads |-> NoResponse]
    /\ appStore = {}
    /\ appLast = Response("none", 0, 0, 0, DetailOk, NoRec, <<>>)

\* _check_overlap applied to a request; rec holds the values the query binds.
detect(data) ==
    /\ last' = Response("detect", 0, 0, IF check_overlap(store, data) THEN 400 ELSE 200,
                        IF check_overlap(store, data) THEN DetailOverlap ELSE DetailOk,
                        NewRow(0, data), <<>>)
    /\ UNCHANGED <<store, nextId, now, histVars, threadVars>>

NextDetector == \E data \in Checked : detect(data) /\ UNCHANGED appVars

SpecDetector == InitDetector /\ [][NextDetector]_vars

\* The threaded cancels start from any table of up to two rows.
InitCancel == InitDetector

SpecCancel == InitCancel /\ [][NextCancel]_vars

\* ------------------------------------- app.py beside the layered service
\* app.create_reservation with the past check before the range check.
app_create_outcome_past_first(db, clock, id, data) ==
    IF ~data.start_time.aware
    THEN [status |-> 400, detail |-> "start_time must be timezone-aware (UTC)",
          rec |-> NoRec, db |-> db]
    ELSE IF ~data.end_time.aware
    THEN [status |-> 400, detail |-> "end_time must be timezone-aware (UTC)",
          rec |-> NoRec, db |-> db]
    ELSE IF Utc(data.start_time) < clock
    THEN [status |-> 400, detail |-> "Reservations cannot be made in the past",
          rec |-> NoRec, db |-> db]
    ELSE IF Utc(data.start_time) >= Utc(data.end_time)
    THEN [status |-> 400, detail |-> "Start time must be before end time",
          rec |-> NoRec, db |-> db]
    ELSE IF {r \in db : /\ r.room_id = data.room_id
                        /\ r.start_time < ToDb(data.end_time)
                        /\ r.end_time > ToDb(data.start_time)} # {}
    THEN [status |-> 400, detail |-> "Reservation overlaps with an existing one",
          rec |-> NoRec, db |-> db]
    ELSE LET reservation == [id |-> id, room_id |-> data.room_id,
                             start_time |-> ToDb(data.start_time),
                             end_time |-> ToDb(data.end_time)]
         IN  [status |-> 200, detail |-> DetailOk, rec |-> reservation,
              db |-> db \cup {reservation}]

\* app.create_reservation: `clock` is the instant it reads on entry; the
\* checks, the overlap query and the insert are written out in the handler.
app_create_outcome(db, clock, id, data) ==
    IF ~data.start_time.aware
    THEN [status |-> 400, detail |-> "start_time must be timezone-aware (UTC)",
          rec |-> NoRec, db |-> db]
    ELSE IF ~data.end_time.aware
    THEN [status |-> 400, detail |-> "end_time must be timezone-aware (UTC)",
          rec |-> NoRec, db |-> db]
    ELSE IF Utc(data.start_time) >= Utc(data.end_time)
    THEN [status |-> 400, detail |-> "Start time must be before end time",
          rec |-> NoRec, db |-> db]
    ELSE IF Utc(data.start_time) < clock
    THEN [status |-> 400, detail |-> "Reservations cannot be made in the past",
          rec |-> NoRec, db |-> db]
    ELSE IF {r \in db : /\ r.room_id = data.room_id
                        /\ r.start_time < ToDb(data.end_time)
                        /\ r.end_time > ToDb(data.start_time)} # {}
    THEN [status |-> 400, detail |-> "Reservation overlaps with an existing one",
          rec |-> NoRec, db |-> db]
    ELSE LET reservation == [id |-> id, room_id |-> data.room_id,
                             start_time |-> ToDb(data.start_time),
                             end_time |-> ToDb(data.end_time)]
         IN  [status |-> 200, detail |-> DetailOk, rec |-> reservation,
              db |-> db \cup {reservation}]

\* app.cancel_reservation
app_cancel_outcome(db, reservation_id) ==
    LET reservation == {r \in db : r.id = reservation_id}
    IN  IF reservation = {}
        THEN [status |-> 404, detail |-> "Reservation not found", db |-> db]
        ELSE [status |-> 200, detail |-> "Reservation canceled", db |-> db \ reservation]

\* app.list_reservations: the sequences it may return.
app_list_outcomes(db, room_id) ==
    LET rows == {r \in db : r.room_id = room_id}
    IN  {f \in Orderings(rows) :
            \A i, j \in 1..Cardinality(rows) : i < j => f[i].start_time <= f[j].start_time}

\* The same POST sent to both applications at the same instant; the ids the
\* two generate are named by the order of creation.
both_create(data) ==
    LET a == app_create_outcome(appStore, now, nextId, data)
    IN  /\ create_reservation(data)
        /\ a.status = 200 => nextId <= MaxRes
        /\ appStore' = a.db
        /\ appLast' = Response("create", 0, now, a.status, a.detail, a.rec, <<>>)
        /\ UNCHANGED histVars

\* The same DELETE sent to both.
both_cancel(reservation_id) ==
    LET a == app_cancel_outcome(appStore, reservation_id)
    IN  /\ cancel_reservation(reservation_id)
        /\ appStore' = a.db
        /\ appLast' = Response("cancel", reservation_id, 0, a.status, a.detail, NoRec, <<>>)
        /\ UNCHANGED histVars

\* The same GET sent to both; each returns one of the orders its query allows.
both_list(room_id) ==
    /\ get_reservations_for_room(room_id)
    /\ \E l \in app_list_outcomes(appStore, room_id) :
           appLast' = Response("list", room_id, 0, 200, DetailOk, NoRec, l)
    /\ UNCHANGED <<appStore, histVars>>

NextEquiv ==
    \/ \E data \in ReservationCreate : both_create(data)
    \/ \E id \in Ids : both_cancel(id)
    \/ \E room \in Rooms : both_list(room)
    \/ Tick /\ UNCHANGED appVars

SpecEquiv == Init /\ [][NextEquiv]_vars

\* =================================================================== claims
\* Two rows of the table book the same room for intersecting [start, end).
RowsOverlap(a, b) ==
    /\ a.room_id = b.room_id
    /\ a.start_time < b.end_time
    /\ b.start_time < a.end_time

\* Two requests ask for the same room and intersecting ranges, both as the
\* instants they denote and as the values the table compares.
RequestsOverlap(a, b) ==
    /\ a.room_id = b.room_id
    /\ Utc(a.start_time) < Utc(b.end_time) /\ Utc(b.start_time) < Utc(a.end_time)
    /\ ToDb(a.start_time) < ToDb(b.end_time) /\ ToDb(b.start_time) < ToDb(a.end_time)

ValidationDetails == {DetailStartTz, DetailEndTz, DetailRange, DetailPast}

\* C1: of two creates served in different threads for the same room and
\* overlapping ranges, both passing validation, exactly one answers 200 and
\* the other 400 "overlaps", and the table never holds the rows of both.
C1_OneOfTwoOverlappingCreatesWins ==
    \A t1, t2 \in Threads :
        ( /\ t1 # t2
          /\ pc[t1] = "done" /\ pc[t2] = "done"
          /\ tres[t1].detail \notin ValidationDetails
          /\ tres[t2].detail \notin ValidationDetails
          /\ RequestsOverlap(treq[t1], treq[t2]) )
        => /\ {tres[t1].status, tres[t2].status} = {200, 400}
           /\ \A t \in {t1, t2} : tres[t].status = 400 => tres[t].detail = DetailOverlap
           /\ ~({tres[t1].rec, tres[t2].rec} \subseteq store)

\* The instants two requests denote intersect as half-open ranges.
InstantsIntersect(a, b) ==
    /\ Utc(a.start_time) < Utc(b.end_time)
    /\ Utc(b.start_time) < Utc(a.end_time)

\* A row and a request ask for the same room and intersecting ranges, by the
\* values the table holds and compares.
RowIntersects(r, data) ==
    /\ r.room_id = data.room_id
    /\ r.start_time < ToDb(data.end_time)
    /\ ToDb(data.start_time) < r.end_time

\* C2: with requests served one at a time, no two rows of a room intersect,
\* and a create whose range intersects a row of its room is answered 400
\* (with "overlaps" when it passes validation) and stores nothing.
C2_NoOverlapOneAtATime ==
    /\ \A a, b \in store : a # b => ~RowsOverlap(a, b)
    /\ \A data \in ReservationCreate :
          (\E r \in store : RowIntersects(r, data))
          => LET o == create_outcome(store, now, nextId, data)
             IN  /\ o.status = 400
                 /\ o.db = store
                 /\ Validate(data, now) = DetailOk => o.detail = DetailOverlap

\* A create was refused for overlap while its room held two rows.
C2_Witness ==
    /\ last.op = "create" /\ last.detail = DetailOverlap
    /\ \E a, b \in store : a # b /\ a.room_id = b.room_id

\* C3: a create that follows a stored create of the same room is refused
\* exactly when the instants of the two requests intersect.
C3_RefusedIffInstantsIntersect ==
    \A t1, t2 \in Threads :
        ( /\ t1 # t2
          /\ pc[t1] = "done" /\ tres[t1].status = 200 /\ store = {tres[t1].rec}
          /\ pc[t2] = "check"
          /\ treq[t1].room_id = treq[t2].room_id )
        => (check_overlap(store, treq[t2]) <=> InstantsIntersect(treq[t1], treq[t2]))

\* C4: a valid create for a range that starts where a row of its room ends,
\* or ends where it starts, and meets no other row, is answered 200 and both
\* are stored.
C4_AdjacentAdmitted ==
    \A data \in ReservationCreate : \A r \in store :
        ( /\ Validate(data, now) = DetailOk
          /\ r.room_id = data.room_id
          /\ r.start_time < r.end_time
          /\ ToDb(data.start_time) < ToDb(data.end_time)
          /\ \/ r.end_time = ToDb(data.start_time)
             \/ ToDb(data.end_time) = r.start_time
          /\ \A q \in store \ {r} : ~RowIntersects(q, data) )
        => LET o == create_outcome(store, now, nextId, data)
           IN  /\ o.status = 200
               /\ o.rec # r
               /\ {r, o.rec} \subseteq o.db

\* A create was answered 200 for a range starting where another row of its
\* room ends.
C4_Witness ==
    /\ last.op = "create" /\ last.status = 200 /\ last.rec \in store
    /\ \E r \in store : /\ r.room_id = last.rec.room_id
                        /\ r.start_time < r.end_time
                        /\ r.end_time = last.rec.start_time
                        /\ last.rec.start_time < last.rec.end_time

\* The readings a half-open range [s, e) covers.
Covers(s, e) == {t \in Walls : s <= t /\ t < e}

C6_FirstFailingCheck ==
    \A data \in ReservationCreate :
        LET o == create_outcome(store, now, nextId, data)
            s == data.start_time
            e == data.end_time
        IN  /\ ~s.aware => o.status = 400 /\ o.detail = DetailStartTz
            /\ s.aware /\ ~e.aware => o.status = 400 /\ o.detail = DetailEndTz
            /\ s.aware /\ e.aware /\ Utc(s) >= Utc(e)
               => o.status = 400 /\ o.detail = DetailRange
            /\ s.aware /\ e.aware /\ Utc(s) < Utc(e) /\ Utc(s) < now
               => o.status = 400 /\ o.detail = DetailPast
            /\ s.aware /\ e.aware /\ Utc(s) < Utc(e) /\ Utc(s) >= now
               => IF \E r \in store : RowIntersects(r, data)
                  THEN o.status = 400 /\ o.detail = DetailOverlap
                  ELSE o.status = 200

\* A create was refused for its start_time's missing timezone, with rows in
\* the table and the clock advanced.
C6_Witness ==
    /\ last.op = "create" /\ last.status = 400 /\ last.detail = DetailStartTz
    /\ store # {} /\ last.clock > 0

\* C7: every row has start_time < end_time, and so has every record a create
\* returns.
C7_StartBeforeEnd ==
    /\ \A r \in store : r.start_time < r.end_time
    /\ (last.op = "create" /\ last.status = 200)
       => last.rec.start_time < last.rec.end_time

\* The ids the successful creates returned.
CreatedIds == {hist[i].id : i \in 1..Len(hist)}

\* C8: a cancel of an id never created, or already canceled, is answered 404
\* and leaves the table as it is; a cancel of a stored id is answered 200.
C8_CancelNotFound ==
    \A id \in Ids :
        LET o == cancel_outcome(store, id)
        IN  /\ (id \notin CreatedIds \/ id \in canceled)
               => o.status = 404 /\ o.detail = DetailNotFound /\ o.db = store
            /\ (\E r \in store : r.id = id) => o.status = 200

\* A cancel of an id canceled before was answered 404.
C8_Witness ==
    /\ last.op = "cancel" /\ last.status = 404
    /\ last.arg \in canceled

\* C9: a list of a room returns each record created for that room and not
\* canceled, once, and nothing else, in ascending order of start_time.
C9_ListExact ==
    \A room \in Rooms : \A l \in list_outcomes(store, room) :
        LET live == {hist[i] : i \in {j \in 1..Len(hist) :
                        hist[j].room_id = room /\ hist[j].id \notin canceled}}
        IN  /\ {l[i] : i \in 1..Len(l)} = live
            /\ Len(l) = Cardinality(live)
            /\ \A i, j \in 1..Len(l) : i < j => l[i].start_time <= l[j].start_time

\* A list returned two records, the later created first.
C9_Witness ==
    /\ last.op = "list" /\ Len(last.list) = 2
    /\ last.list[1].id > last.list[2].id
    /\ last.list[1].start_time < last.list[2].start_time

\* C10: a create whose start_time is before the instant read during
\* validation is answered 400 (with "in the past" when start is before end)
\* and stores nothing; one whose start_time is that instant or later is never
\* answered "in the past".
C10_PastStart ==
    \A data \in ReservationCreate :
        LET o == create_outcome(store, now, nextId, data)
        IN  (data.start_time.aware /\ data.end_time.aware)
            => /\ Utc(data.start_time) < now
                  => /\ o.status = 400 /\ o.db = store
                     /\ Utc(data.start_time) < Utc(data.end_time) => o.detail = DetailPast
               /\ Utc(data.start_time) >= now => o.detail # DetailPast

\* A create was answered 200 for a start_time equal to the instant it read:
\* the row keeps the reading, the instant is the reading minus the offset, at
\* most reading + MaxOff, and the reading + MaxOff is the clock.
C10_Witness ==
    /\ last.op = "create" /\ last.status = 200
    /\ last.clock > 0
    /\ last.rec.start_time + MaxOff = last.clock

\* C11: a create whose start_time and end_time both carry a timezone and
\* whose start_time is the instant of end_time, or a later one, is answered
\* 400 "start before end" and stores nothing, whatever the clock and the
\* table are.
C11_EmptyOrInvertedRange ==
    \A data \in ReservationCreate :
        LET o == create_outcome(store, now, nextId, data)
        IN  ( /\ data.start_time.aware /\ data.end_time.aware
              /\ Utc(data.start_time) >= Utc(data.end_time) )
            => /\ o.status = 400 /\ o.detail = DetailRange
               /\ o.rec = NoRec /\ o.db = store

\* A create was refused for its range with the clock advanced and two rows in
\* the table.
C11_Witness ==
    /\ last.op = "create" /\ last.status = 400 /\ last.detail = DetailRange
    /\ last.clock > 0 /\ Cardinality(store) = 2

\* C12: a create answered 400, for any of the validations or for overlap,
\* leaves the table exactly as it was: no row added, removed or changed, and
\* no id used up.
C12_FailedCreateLeavesStore ==
    [][(last'.op = "create" /\ last'.status = 400)
       => (store' = store /\ nextId' = nextId)]_vars

\* A create was refused for overlap while the table held one row.
C12_Witness ==
    /\ last.op = "create" /\ last.status = 400 /\ last.detail = DetailOverlap
    /\ Cardinality(store) = 1

\* C13: a row enters the table only as the record a create answered 200
\* returns, under an id no create returned before; it leaves only by a cancel
\* answered 200 that names its id, which removes that row and no other; and
\* while it is in the table its id, room_id, start_time and end_time stay
\* as they are.
C13_Lifecycle ==
    [][/\ store' \ store # {}
          => /\ last'.op = "create" /\ last'.status = 200
             /\ store' = store \cup {last'.rec}
             /\ last'.rec.id \notin CreatedIds
       /\ store \ store' # {}
          => /\ last'.op = "cancel" /\ last'.status = 200
             /\ store' = {r \in store : r.id # last'.arg}
             /\ Cardinality(store') = Cardinality(store) - 1
       /\ \A r \in store : \A q \in store' : r.id = q.id => r = q
       /\ \A q \in store' : q.id \notin canceled
      ]_vars

\* A cancel was answered 200 and left the other row in the table.
C13_Witness ==
    /\ last.op = "cancel" /\ last.status = 200 /\ last.arg \in canceled
    /\ Cardinality(store) = 1 /\ Len(hist) = 2

\* The rows of a table that book a room.
RowsOfRoom(db, room_id) == {r \in db : r.room_id = room_id}

\* C14: the overlap query of a create is answered by the rows of its own room
\* alone, a create is refused for overlap only when its room has a row, and
\* two creates for different rooms that pass validation, served in two
\* threads with no other request, are both answered 200 and both stored,
\* also when their ranges intersect.
C14_RoomsIndependent ==
    /\ \A t \in Threads :
          pc[t] = "check"
          => (check_overlap(store, treq[t])
              <=> check_overlap(RowsOfRoom(store, treq[t].room_id), treq[t]))
    /\ \A t \in Threads :
          (pc[t] = "done" /\ tres[t].detail = DetailOverlap)
          => RowsOfRoom(store, treq[t].room_id) # {}
    /\ \A t1, t2 \in Threads :
          ( /\ t1 # t2
            /\ pc[t1] = "done" /\ pc[t2] = "done"
            /\ tres[t1].detail \notin ValidationDetails
            /\ tres[t2].detail \notin ValidationDetails
            /\ treq[t1].room_id # treq[t2].room_id
            /\ \A t3 \in Threads \ {t1, t2} : pc[t3] = "idle" )
          => /\ tres[t1].status = 200 /\ tres[t2].status = 200
             /\ store = {tres[t1].rec, tres[t2].rec}
             /\ tres[t1].rec # tres[t2].rec

\* Two threads were answered 200 for the same range in different rooms.
C14_Witness ==
    \E t1, t2 \in Threads :
        /\ pc[t1] = "done" /\ pc[t2] = "done"
        /\ tres[t1].status = 200 /\ tres[t2].status = 200
        /\ tres[t1].rec.room_id # tres[t2].rec.room_id
        /\ tres[t1].rec.start_time = tres[t2].rec.start_time
        /\ tres[t1].rec.end_time = tres[t2].rec.end_time
        /\ tres[t1].rec.start_time < tres[t1].rec.end_time
        /\ {tres[t1].rec, tres[t2].rec} \subseteq store

\* C15: a create that fails a validation or the overlap check is answered 400
\* with the detail of that check, and is answered 200 otherwise; a cancel of
\* an id not in the table is answered 404 "not found", and 200 otherwise; a
\* list is answered 200; no request is answered with any other status.
C15_StatusClasses ==
    /\ \A data \in ReservationCreate :
          LET o == create_outcome(store, now, nextId, data)
              v == Validate(data, now)
          IN  /\ v # DetailOk => o.status = 400 /\ o.detail = v
              /\ (v = DetailOk /\ check_overlap(store, data))
                 => o.status = 400 /\ o.detail = DetailOverlap
              /\ (v = DetailOk /\ ~check_overlap(store, data)) => o.status = 200
              /\ o.status \in {200, 400}
              /\ o.status = 400 => o.detail \in ValidationDetails \cup {DetailOverlap}
    /\ \A id \in Ids :
          LET o == cancel_outcome(store, id)
          IN  /\ (\A r \in store : r.id # id) => o.status = 404 /\ o.detail = DetailNotFound
              /\ o.status \in {200, 404}
    /\ last.op = "create" => last.status \in {200, 400}
    /\ last.op = "cancel" => last.status \in {200, 404}
    /\ last.op = "list" => last.status = 200

\* A cancel naming an id not in the table was answered 404 while the table
\* held a row.
C15_Witness ==
    /\ last.op = "cancel" /\ last.status = 404 /\ last.detail = DetailNotFound
    /\ store # {} /\ \A r \in store : r.id # last.arg

\* C16: of two cancels served in different threads that name the same id,
\* one of which is answered 200, the other is answered 404 "not found":
\* never are both answered 200.
C16_OneOfTwoCancelsWins ==
    \A t1, t2 \in Threads :
        ( /\ t1 # t2
          /\ pc[t1] = "done" /\ pc[t2] = "done"
          /\ tres[t1].rec.id = tres[t2].rec.id
          /\ tres[t1].status = 200 )
        => /\ tres[t2].status = 404
           /\ tres[t2].detail = DetailNotFound

\* The table after the reservations with the given ids are canceled, one
\* cancel after the other.
RECURSIVE CancelAll(_, _)
CancelAll(db, ids) ==
    IF ids = {} THEN db
    ELSE LET id == CHOOSE x \in ids : TRUE
         IN  CancelAll(cancel_outcome(db, id).db, ids \ {id})

\* C17: when a create that passes validation is refused for overlap, and the
\* rows it overlaps are then all canceled, the same create is answered 200 and
\* stored, at any later instant its start_time is not before; and a create is
\* refused for overlap only by a row whose id was not canceled.
C17_CancelFreesInterval ==
    \A data \in ReservationCreate :
        LET o == create_outcome(store, now, nextId, data)
            blockers == find_overlapping(store, data.room_id, data.start_time, data.end_time)
            after == CancelAll(store, {r.id : r \in blockers})
        IN  o.detail = DetailOverlap
            => /\ blockers # {}
               /\ \A r \in blockers : r.id \notin canceled
               /\ \A clock \in now..MaxNow :
                     Validate(data, clock) = DetailOk
                     => LET again == create_outcome(after, clock, nextId, data)
                        IN  again.status = 200 /\ again.rec \in again.db

\* A create was answered 200 for the room and range of a reservation canceled
\* before.
C17_Witness ==
    /\ last.op = "create" /\ last.status = 200
    /\ \E i \in 1..Len(hist) :
          /\ hist[i].id \in canceled
          /\ hist[i].id # last.rec.id
          /\ hist[i].room_id = last.rec.room_id
          /\ hist[i].start_time = last.rec.start_time
          /\ hist[i].end_time = last.rec.end_time
          /\ hist[i].start_time < hist[i].end_time

\* C18: after any sequence of creates, cancels and lists sent to app.py and
\* to the layered service at the same instants, the two tables hold the same
\* rows (ids named by the order of creation), the last create or cancel got
\* the same status, detail and record from both, and the last list got from
\* each a sequence the other may return as well.
C18_AppEquivalent ==
    /\ appStore = store
    /\ last.op \in {"none", "create", "cancel"} => appLast = last
    /\ last.op = "list"
       => /\ appLast.op = "list" /\ appLast.arg = last.arg
          /\ appLast.status = last.status /\ appLast.detail = last.detail
          /\ appLast.list \in list_outcomes(store, last.arg)
          /\ last.list \in app_list_outcomes(appStore, last.arg)
    /\ \A room \in Rooms : app_list_outcomes(appStore, room) = list_outcomes(store, room)

\* Both answered a list of a room with two records, after two creates that
\* both admitted.
C18_Witness ==
    /\ last.op = "list" /\ appLast.op = "list"
    /\ Len(last.list) = 2 /\ Len(appLast.list) = 2
    /\ nextId > 2
    /\ Cardinality(appStore) = 2

====
